---- MODULE Spec2Model ----
(***************************************************************************)
(* Model of the istio operator's IstioControlPlane controller (Reconcile,  *)
(* in its two versions: the typed one that keeps the finalizers in a       *)
(* string set, and the unstructured one that edits the finalizer slice by  *)
(* index) and of the mesh command's apply pipeline (genApplyManifests).    *)
(***************************************************************************)
EXTENDS Integers, Sequences, FiniteSets, TLC

(***************************************************************************)
(* Program constants                                                       *)
(***************************************************************************)
finalizer == "istio-finalizer.install.istio.io"

finalizerMaxRetries == 10

\* A finalizer token owned by some other controller.
otherFinalizer == "foregroundDeletion"

\* The tokens in lexical order (the order sets.String.List() returns).
TokenOrder == <<otherFinalizer, finalizer>>

\* The warning text on the allow-list of ignorable standard error prefixes.
KubectlApplyWarning ==
    "Warning: kubectl apply should be used on resource created by either kubectl create --save-config or kubectl apply"

ignoreStdErrList == << <<KubectlApplyWarning>> >>

(***************************************************************************)
(* Bounds                                                                  *)
(***************************************************************************)
\* Reconcile invocations the dispatcher starts in one behaviour.
MaxInvocations == 2

\* Writes to the resource by actors other than this controller.
MaxWrites == 2

\* Number of --set overrides given to the apply pipeline.
MaxOverrides == 2

\* Length, in tokens, of a component's standard error text.
MaxStderrLen == 2

(***************************************************************************)
(* State                                                                   *)
(***************************************************************************)
VARIABLES
    impl,           \* which version of Reconcile runs: "sets" or "slice"
    srv,            \* the resource as stored by the API server
    cache,          \* the resource as the client's (cached) reads see it
    lastWrite,      \* who wrote srv last: "init", "add", "remove", "other"
    writes,         \* number of writes by other actors so far
    invocations,    \* number of Reconcile invocations started so far
    pc,             \* position of the current Reconcile invocation
    fetchOut,       \* outcome of the initial Get ("none" before it)
    fetched,        \* the resource as the initial Get returned it
    obj,            \* the fetched copy Reconcile works on (icp / u)
    branch,         \* the branch the invocation took after the fetch
    err,            \* err of the deletion path (factory.New / Delete)
    finalizerError, \* finalizerError: result of the last Update
    retryCount,     \* retryCount of the conflict-retry loop
    result,         \* the error Reconcile returned ("nil" = success)
    updateCalls,    \* r.client.Update calls of this invocation
    refetchCalls,   \* r.client.Get calls made inside the retry loop
    deleteCalls,    \* reconciler.Delete() calls of this invocation
    reconcileCalls, \* reconciler.Reconcile() calls of this invocation
    occurred,       \* errors that occurred in this invocation
    logged,         \* errors this invocation wrote to the log
    lastFetched,    \* the copy the latest successful Get returned
    decodable,      \* the stored spec can be decoded into icp.Spec
    calm            \* conflicts by other writers and transient errors
                    \* have stopped

ctlVars == <<impl, srv, cache, lastWrite, writes, invocations, pc, fetchOut,
             fetched, obj, branch, err, finalizerError, retryCount, result,
             updateCalls, refetchCalls, deleteCalls, reconcileCalls, occurred,
             logged, lastFetched, decodable, calm>>

\* State of the apply pipeline (genApplyManifests).
VARIABLES
    apc,            \* position of the pipeline ("off": not running)
    setOverlay,     \* the --set overrides, a sequence of strings
    force,          \* the --force flag
    overlayFromSet, \* the document makeTreeFromSetList returned
    passed,         \* the stages that succeeded
    failed,         \* the stage that returned an error ("none" so far)
    manifests,      \* the components of the rendered manifest map
    applyOut,       \* out: ApplyAll's outcome per component
    todo,           \* components the report loop has not visited yet
    gotError,       \* gotError of the report loop
    applied,        \* manifest.ApplyAll has been called
    treeLog,        \* what makeTreeFromSetList wrote to the logger
    aerr            \* the error genApplyManifests returned ("none" before)

appVars == <<apc, setOverlay, force, overlayFromSet, passed, failed,
             manifests, applyOut, todo, gotError, applied, treeLog, aerr>>

\* State of the diff engine (ManifestDiffWithRenameSelectIgnore).
VARIABLES
    dpc,             \* position in the function ("off": not running)
    aIn,             \* A's identity index as parsed (ToMap)
    bom,             \* B's identity index as parsed (ToMap)
    renameResources, \* the rename rules, a string
    selectResources, \* the select patterns, a string
    ignoreResources, \* the ignore patterns, a string
    verbose,         \* the verbose flag
    aom,             \* A's index, renamed once the rename step is over
    aosm,            \* A's filtered index
    bosm,            \* B's filtered index
    diffOut,         \* out of manifestDiff: identity key -> report
    derr             \* the error returned ("none" before the return)

diffVars == <<dpc, aIn, bom, renameResources, selectResources,
              ignoreResources, verbose, aom, aosm, bosm, diffOut, derr>>

vars == <<ctlVars, appVars, diffVars>>

(***************************************************************************)
(* Helpers on finalizer lists                                              *)
(***************************************************************************)
Range(s) == {s[i] : i \in 1..Len(s)}

\* Number of occurrences of t in the sequence s.
Count(s, t) == Cardinality({i \in 1..Len(s) : s[i] = t})

\* sets.String.List(): the members in sorted order.
SetList(S) == SelectSeq(TokenOrder, LAMBDA t : t \in S)

\* indexOf: index of the first element equal to s (0-based), or -1.
indexOf(l, s) ==
    IF \E i \in 1..Len(l) : l[i] = s
    THEN (CHOOSE i \in 1..Len(l) : l[i] = s /\ \A j \in 1..(i-1) : l[j] # s) - 1
    ELSE -1

\* append(finalizers[:i], finalizers[i+1:]...) for a 0-based index i >= 0.
removeAt(l, i) == SubSeq(l, 1, i) \o SubSeq(l, i + 2, Len(l))

\* finalizers.Has(finalizer) / finalizerIndex >= 0
HasFinalizer(l) == indexOf(l, finalizer) >= 0

\* The removal panics in the slice version when the token is not in the list
\* (finalizers[:-1] is out of range); the set version never does.
RemovePanics(v, l) == v = "slice" /\ indexOf(l, finalizer) < 0

\* finalizers.Delete(finalizer); SetFinalizers(finalizers.List())      (sets)
\* append(finalizers[:finalizerIndex], finalizers[finalizerIndex+1:]...) (slice)
RemoveFinalizer(v, l) ==
    IF v = "sets"
    THEN SetList(Range(l) \ {finalizer})
    ELSE removeAt(l, indexOf(l, finalizer))

\* Variant of AddFinalizer that appends the token twice.
AddFinalizerBuggyTwice(v, l) == Append(Append(l, finalizer), finalizer)

\* finalizers.Insert(finalizer); SetFinalizers(finalizers.List())  (sets)
\* append(finalizers, finalizer)                                   (slice)
AddFinalizer(v, l) ==
    IF v = "sets"
    THEN SetList(Range(l) \cup {finalizer})
    ELSE Append(l, finalizer)

(***************************************************************************)
(* Decisions of Reconcile                                                  *)
(***************************************************************************)
\* errors.IsConflict
IsConflict(e) == e = "conflict"

\* Variant of RetryCond that retries after any error of the Update.
RetryCondBuggyAnyError(fe, rc) == fe # "nil" /\ rc < finalizerMaxRetries

\* The condition of the retry loop.
RetryCond(fe, rc) == IsConflict(fe) /\ rc < finalizerMaxRetries

\* Variant of FetchResult that returns the not-found error as well.
FetchResultBuggyNotFound(out) == out

\* What Reconcile returns when the initial Get fails.
FetchResult(out) == IF out = "notFound" THEN "nil" ELSE out

\* Variant of Branch that finalizes a deleting resource without testing
\* for the token.
BranchBuggyNoTokenCheck(o) ==
    IF o.deleted THEN "delete"
    ELSE IF ~HasFinalizer(o.fins) THEN "add" ELSE "update"

\* The branch taken on the fetched resource.
Branch(o) ==
    IF o.deleted
    THEN IF ~HasFinalizer(o.fins) THEN "noop" ELSE "delete"
    ELSE IF ~HasFinalizer(o.fins) THEN "add" ELSE "update"

\* The position the branch leads to.
BranchPc(b) ==
    CASE b = "noop" -> "done"
      [] b = "delete" -> "delete"
      [] b = "add" -> "addUpdate"
      [] b = "update" -> "reconcile"

\* Variant of AfterDelete that returns the error of the delete operation
\* instead of going on to remove the finalizer.
AfterDeleteBuggyBlock(e) == IF e = "nil" THEN "update" ELSE "done"

\* After the delete operation the finalizer is removed regardless of errors.
AfterDelete(e) == "update"

\* Variant of AfterAddUpdate that goes on to reconcile after a failed Update.
AfterAddUpdateBuggyContinue(e) == "reconcile"

\* A failed add-update returns; a successful one goes on to reconcile.
AfterAddUpdate(e) == IF e # "nil" THEN "done" ELSE "reconcile"

\* The result of the deletion path once the retry loop is over.
DeleteResult(fe, e) == IF fe # "nil" THEN fe ELSE e

(***************************************************************************)
(* The API server and the client                                           *)
(***************************************************************************)
\* The zero value of the copy, before any Get filled it.
NoObject == [deleted |-> FALSE, fins |-> <<>>, rv |-> 0]

\* The copy a successful Get returns.
Snapshot(c) == [deleted |-> c.deleted, fins |-> c.fins, rv |-> c.rv]

\* The outcomes r.client.Get can have (reads are served from the cache).
GetOutcomes ==
    (IF cache.exists THEN {"ok"} ELSE {"notFound"})
        \cup (IF calm THEN {} ELSE {"getErr"})

\* The outcomes r.client.Update(o) can have against the stored resource.
UpdateOutcomes(o) ==
    IF ~srv.exists THEN {"notFound"}
    ELSE IF o.rv # srv.rv THEN {"conflict"}
    ELSE {"nil"} \cup (IF calm THEN {} ELSE {"updateErr"})

\* The stored resource after a write of the finalizer list fins: the server
\* removes a resource that is deleting once its finalizers are empty.
Stored(s, fins) ==
    [exists |-> ~(s.deleted /\ fins = <<>>), deleted |-> s.deleted,
     fins |-> fins, rv |-> s.rv + 1]

\* The stored resource after Update(o) with outcome e.
AfterUpdate(o, e) == IF e = "nil" THEN Stored(srv, o.fins) ELSE srv

InitFins == {<<>>, <<finalizer>>, <<otherFinalizer>>,
             <<finalizer, otherFinalizer>>, <<otherFinalizer, finalizer>>}

Errors == {"getErr", "marshalErr", "unmarshalErr", "newErr", "deleteErr",
           "conflict", "updateErr", "notFound", "reconcileErr"}

InitCtl ==
    /\ impl \in {"sets", "slice"}
    /\ \E d \in BOOLEAN, f \in InitFins :
          /\ ~(d /\ f = <<>>)
          /\ srv = [exists |-> TRUE, deleted |-> d, fins |-> f, rv |-> 1]
    /\ cache = srv
    /\ lastWrite = "init"
    /\ writes = 0
    /\ invocations = 0
    /\ pc = "idle"
    /\ fetchOut = "none"
    /\ fetched = NoObject
    /\ obj = NoObject
    /\ branch = "none"
    /\ err = "nil"
    /\ finalizerError = "nil"
    /\ retryCount = 0
    /\ result = "none"
    /\ updateCalls = 0
    /\ refetchCalls = 0
    /\ deleteCalls = 0
    /\ reconcileCalls = 0
    /\ occurred = {}
    /\ logged = {}
    /\ lastFetched = NoObject
    /\ decodable \in BOOLEAN
    /\ calm = FALSE

(***************************************************************************)
(* Reconcile, one action per cluster call or collaborator call             *)
(***************************************************************************)
\* The dispatcher starts an invocation (first event, requeue, or the restart
\* after a crash); the per-invocation bookkeeping starts afresh.
Dispatch ==
    /\ pc \in {"idle", "done", "panic"}
    /\ invocations < MaxInvocations \/ calm
    /\ invocations' = IF invocations < MaxInvocations THEN invocations + 1
                      ELSE invocations
    /\ lastFetched' = NoObject
    /\ pc' = "get"
    /\ fetchOut' = "none"
    /\ fetched' = NoObject
    /\ obj' = NoObject
    /\ branch' = "none"
    /\ err' = "nil"
    /\ finalizerError' = "nil"
    /\ retryCount' = 0
    /\ result' = "none"
    /\ updateCalls' = 0
    /\ refetchCalls' = 0
    /\ deleteCalls' = 0
    /\ reconcileCalls' = 0
    /\ occurred' = {}
    /\ logged' = {}
    /\ UNCHANGED <<impl, decodable, calm, srv, cache, lastWrite, writes>>
    /\ UNCHANGED <<appVars, diffVars>>

\* r.client.Get of the resource: not found returns success, another error is
\* returned (and logged by the typed version only); on success the typed
\* version branches at once, the unstructured version first builds icp.
Get ==
    /\ pc = "get"
    /\ \E out \in GetOutcomes :
          /\ fetchOut' = out
          /\ fetched' = IF out = "ok" THEN Snapshot(cache) ELSE fetched
          /\ lastFetched' = IF out = "ok" THEN Snapshot(cache) ELSE lastFetched
          /\ IF out # "ok"
             THEN /\ pc' = "done"
                  /\ result' = FetchResult(out)
                  /\ occurred' = IF out = "getErr" THEN occurred \cup {"get"}
                                 ELSE occurred
                  /\ logged' = IF out = "getErr" /\ impl = "sets"
                               THEN logged \cup {"get"} ELSE logged
                  /\ UNCHANGED <<obj, branch>>
             ELSE /\ obj' = Snapshot(cache)
                  /\ IF impl = "sets"
                     THEN /\ branch' = Branch(obj')
                          /\ pc' = BranchPc(branch')
                          /\ result' = IF branch' = "noop" THEN "nil"
                                       ELSE result
                     ELSE /\ pc' = "getTyped"
                          /\ UNCHANGED <<branch, result>>
                  /\ UNCHANGED <<occurred, logged>>
    /\ UNCHANGED <<impl, decodable, calm, srv, cache, lastWrite, writes,
                   invocations, err,
                   finalizerError, retryCount, updateCalls, refetchCalls,
                   deleteCalls, reconcileCalls>>
    /\ UNCHANGED <<appVars, diffVars>>

\* The outcomes of yaml.Marshal of the spec followed by UnmarshalWithJSONPB:
\* they depend on the stored spec only.
DecodeOutcomes ==
    IF decodable THEN {"ok"} ELSE {"marshalErr", "unmarshalErr"}

\* Unstructured version only: the typed Get (its error is logged and
\* ignored), then yaml.Marshal of the spec (its error is returned) and
\* UnmarshalWithJSONPB into icp.Spec (its error is logged and returned);
\* then the branch.
GetTyped ==
    /\ pc = "getTyped"
    /\ \E g \in {"ok", "getErr"}, d \in DecodeOutcomes :
          /\ occurred' = occurred
                            \cup (IF g # "ok" THEN {"getTyped"} ELSE {})
                            \cup (IF d # "ok" THEN {d} ELSE {})
          /\ logged' = logged
                          \cup (IF g # "ok" THEN {"getTyped"} ELSE {})
                          \cup (IF d = "unmarshalErr" THEN {d} ELSE {})
          /\ IF d # "ok"
             THEN /\ pc' = "done"
                  /\ result' = d
                  /\ UNCHANGED branch
             ELSE /\ branch' = Branch(obj)
                  /\ pc' = BranchPc(branch')
                  /\ result' = IF branch' = "noop" THEN "nil" ELSE result
    /\ UNCHANGED <<impl, decodable, calm, lastFetched,
                   srv, cache, lastWrite, writes, invocations, fetchOut,
                   fetched, obj, err,
                   finalizerError, retryCount, updateCalls, refetchCalls,
                   deleteCalls, reconcileCalls>>
    /\ UNCHANGED <<appVars, diffVars>>

\* Deletion path: r.factory.New and reconciler.Delete(), then the token is
\* taken out of the fetched finalizers, regardless of errors.
DeleteOp ==
    /\ pc = "delete"
    /\ \E e \in {"nil", "newErr", "deleteErr"} :
          /\ err' = e
          /\ deleteCalls' = IF e = "newErr" THEN deleteCalls
                            ELSE deleteCalls + 1
          /\ occurred' = IF e # "nil" THEN occurred \cup {e} ELSE occurred
          /\ logged' = IF e = "newErr" THEN logged \cup {e} ELSE logged
          /\ pc' = AfterDelete(e)
          /\ IF pc' = "done"
             THEN result' = e /\ UNCHANGED obj
             ELSE /\ obj' = [obj EXCEPT !.fins = RemoveFinalizer(impl, obj.fins)]
                  /\ UNCHANGED result
    /\ UNCHANGED <<impl, decodable, calm, lastFetched,
                   srv, cache, lastWrite, writes, invocations, fetchOut,
                   fetched, branch,
                   finalizerError, retryCount, updateCalls, refetchCalls,
                   reconcileCalls>>
    /\ UNCHANGED <<appVars, diffVars>>

\* The end of one Update of the deletion path: enter (or stay in) the retry
\* loop, or leave it and return.  rc is retryCount when the condition of the
\* loop is evaluated.
LoopOrReturn(fe, rc) ==
    /\ finalizerError' = fe
    /\ retryCount' = rc
    /\ occurred' = IF fe # "nil" THEN occurred \cup {"update"} ELSE occurred
    /\ logged' = IF fe # "nil" THEN logged \cup {"update"} ELSE logged
    /\ IF RetryCond(fe, rc)
       THEN pc' = "refetch" /\ UNCHANGED result
       ELSE pc' = "done" /\ result' = DeleteResult(fe, err)

\* finalizerError := r.client.Update(...) before the loop.
UpdateRemove ==
    /\ pc = "update"
    /\ \E fe \in UpdateOutcomes(obj) :
          /\ srv' = AfterUpdate(obj, fe)
          /\ lastWrite' = IF fe = "nil" THEN "remove" ELSE lastWrite
          /\ obj' = IF fe = "nil" THEN [obj EXCEPT !.rv = srv'.rv] ELSE obj
          /\ updateCalls' = updateCalls + 1
          /\ LoopOrReturn(fe, retryCount)
    /\ UNCHANGED <<impl, decodable, calm, lastFetched,
                   cache, writes, invocations, fetchOut,
                   fetched, branch, err,
                   refetchCalls, deleteCalls, reconcileCalls>>
    /\ UNCHANGED <<appVars, diffVars>>

\* A variant that takes the resource version of the latest copy but keeps
\* the finalizer list computed before.
RefetchedBuggyKeepList(o, c) == [Snapshot(c) EXCEPT !.fins = o.fins]

\* r.client.Get(..., instance) in the loop: the working copy is replaced by
\* the latest version.
Refetched(o, c) == Snapshot(c)

\* In the loop: the re-fetch, whose error is discarded (the copy then stays
\* as it was), and the removal recomputed on the copy.  The slice version
\* indexes with indexOf's result and panics when that is -1.
Refetch ==
    /\ pc = "refetch"
    /\ \E out \in GetOutcomes :
          LET latest == IF out = "ok"
                         THEN Refetched(obj, cache) ELSE obj
          IN /\ lastFetched' = IF out = "ok" THEN Snapshot(cache)
                               ELSE lastFetched
             /\ occurred' = IF out # "ok" THEN occurred \cup {"refetch"}
                            ELSE occurred
             /\ refetchCalls' = refetchCalls + 1
             /\ IF RemovePanics(impl, latest.fins)
                THEN /\ pc' = "panic"
                     /\ result' = "panic"
                     /\ obj' = latest
                ELSE /\ pc' = "retryUpdate"
                     /\ obj' = [latest EXCEPT
                                  !.fins = RemoveFinalizer(impl, latest.fins)]
                     /\ UNCHANGED result
    /\ UNCHANGED <<impl, decodable, calm, srv, cache, lastWrite, writes,
                   invocations, fetchOut,
                   fetched, branch, err, finalizerError, retryCount,
                   updateCalls, deleteCalls, reconcileCalls, logged>>
    /\ UNCHANGED <<appVars, diffVars>>

\* finalizerError = r.client.Update(...) in the loop, then retryCount++.
RetryUpdate ==
    /\ pc = "retryUpdate"
    /\ \E fe \in UpdateOutcomes(obj) :
          /\ srv' = AfterUpdate(obj, fe)
          /\ lastWrite' = IF fe = "nil" THEN "remove" ELSE lastWrite
          /\ obj' = IF fe = "nil" THEN [obj EXCEPT !.rv = srv'.rv] ELSE obj
          /\ updateCalls' = updateCalls + 1
          /\ LoopOrReturn(fe, retryCount + 1)
    /\ UNCHANGED <<impl, decodable, calm, lastFetched,
                   cache, writes, invocations, fetchOut,
                   fetched, branch, err,
                   refetchCalls, deleteCalls, reconcileCalls>>
    /\ UNCHANGED <<appVars, diffVars>>

\* Not deleting, token absent: add it with a single Update.
AddUpdate ==
    /\ pc = "addUpdate"
    /\ LET o == [obj EXCEPT !.fins = AddFinalizer(impl, obj.fins)]
       IN \E e \in UpdateOutcomes(o) :
             /\ srv' = AfterUpdate(o, e)
             /\ lastWrite' = IF e = "nil" THEN "add" ELSE lastWrite
             /\ obj' = IF e = "nil" THEN [o EXCEPT !.rv = srv'.rv] ELSE o
             /\ updateCalls' = updateCalls + 1
             /\ occurred' = IF e # "nil" THEN occurred \cup {"addUpdate"}
                            ELSE occurred
             /\ logged' = IF e # "nil" THEN logged \cup {"addUpdate"}
                          ELSE logged
             /\ pc' = AfterAddUpdate(e)
             /\ result' = IF pc' = "done" THEN e ELSE result
    /\ UNCHANGED <<impl, decodable, calm, lastFetched,
                   cache, writes, invocations, fetchOut,
                   fetched, branch, err,
                   finalizerError, retryCount, refetchCalls, deleteCalls,
                   reconcileCalls>>
    /\ UNCHANGED <<appVars, diffVars>>

\* r.factory.New and reconciler.Reconcile(): one attempt, its error logged
\* and returned.
ReconcileOp ==
    /\ pc = "reconcile"
    /\ \E e \in {"nil", "newErr", "reconcileErr"} :
          /\ reconcileCalls' = IF e = "newErr" THEN reconcileCalls
                               ELSE reconcileCalls + 1
          /\ occurred' = IF e # "nil" THEN occurred \cup {e} ELSE occurred
          /\ logged' = IF e # "nil" THEN logged \cup {e} ELSE logged
          /\ result' = e
          /\ pc' = "done"
    /\ UNCHANGED <<impl, decodable, calm, lastFetched,
                   srv, cache, lastWrite, writes, invocations, fetchOut,
                   fetched, obj,
                   branch, err, finalizerError, retryCount, updateCalls,
                   refetchCalls, deleteCalls>>
    /\ UNCHANGED <<appVars, diffVars>>

(***************************************************************************)
(* The environment of the controller                                       *)
(***************************************************************************)
\* Another actor rewrites the finalizers of the stored resource: it adds or
\* removes the foreign token, or removes this controller's token.
OtherWriter ==
    /\ ~calm
    /\ srv.exists
    /\ writes < MaxWrites
    /\ \E f \in { Append(srv.fins, otherFinalizer),
                  SelectSeq(srv.fins, LAMBDA t : t # otherFinalizer),
                  SelectSeq(srv.fins, LAMBDA t : t # finalizer) } :
          /\ f # srv.fins
          /\ Count(f, otherFinalizer) <= 1
          /\ srv' = Stored(srv, f)
    /\ lastWrite' = "other"
    /\ writes' = writes + 1
    /\ UNCHANGED <<impl, decodable, calm, lastFetched,
                   cache, invocations, fetchOut,
                   fetched, pc, obj, branch, err,
                   finalizerError, retryCount, result, updateCalls,
                   refetchCalls, deleteCalls, reconcileCalls, occurred, logged>>
    /\ UNCHANGED <<appVars, diffVars>>

\* The user deletes the resource: the server sets the deletion marker, and
\* removes the resource at once when it has no finalizers.
UserDelete ==
    /\ ~calm
    /\ srv.exists
    /\ ~srv.deleted
    /\ writes < MaxWrites
    /\ srv' = [exists |-> srv.fins # <<>>, deleted |-> TRUE,
               fins |-> srv.fins, rv |-> srv.rv + 1]
    /\ lastWrite' = "other"
    /\ writes' = writes + 1
    /\ UNCHANGED <<impl, decodable, calm, lastFetched,
                   cache, invocations, fetchOut,
                   fetched, pc, obj, branch, err,
                   finalizerError, retryCount, result, updateCalls,
                   refetchCalls, deleteCalls, reconcileCalls, occurred, logged>>
    /\ UNCHANGED <<appVars, diffVars>>

\* The client's cache catches up with the server.
CacheSync ==
    /\ cache # srv
    /\ cache' = srv
    /\ UNCHANGED <<impl, decodable, calm, lastFetched,
                   srv, lastWrite, writes, invocations, fetchOut,
                   fetched, pc, obj, branch,
                   err, finalizerError, retryCount, result, updateCalls,
                   refetchCalls, deleteCalls, reconcileCalls, occurred, logged>>
    /\ UNCHANGED <<appVars, diffVars>>

\* From now on no other actor writes the resource and the cluster calls
\* return no transient error.
Settle ==
    /\ ~calm
    /\ calm' = TRUE
    /\ UNCHANGED <<impl, decodable, srv, cache, lastWrite, writes, invocations,
                   pc, fetchOut, fetched, obj, branch, err, finalizerError,
                   retryCount, result, updateCalls, refetchCalls, deleteCalls,
                   reconcileCalls, occurred, logged, lastFetched>>
    /\ UNCHANGED <<appVars, diffVars>>

(***************************************************************************)
(* The apply pipeline: strings and makeTreeFromSetList                     *)
(***************************************************************************)
\* Texts are sequences of tokens.  An override is a sequence of characters;
\* a standard error text is a sequence of white space, the allow-listed
\* warning and other text.
Space == " "

StderrTokens == {Space, KubectlApplyWarning, "error: unable to recognize"}

\* All sequences over S of length at most n.
RECURSIVE SeqsUpTo(_, _)
SeqsUpTo(S, n) ==
    IF n = 0 THEN {<<>>}
    ELSE LET shorter == SeqsUpTo(S, n - 1)
         IN shorter \cup {Append(t, x) : t \in shorter, x \in S}

\* strings.TrimSpace
RECURSIVE TrimLeft(_)
TrimLeft(t) ==
    IF t # <<>> /\ Head(t) = Space THEN TrimLeft(Tail(t)) ELSE t

RECURSIVE TrimRight(_)
TrimRight(t) ==
    IF t # <<>> /\ t[Len(t)] = Space
    THEN TrimRight(SubSeq(t, 1, Len(t) - 1)) ELSE t

TrimSpace(t) == TrimRight(TrimLeft(t))

\* strings.HasPrefix
HasPrefix(t, prefix) ==
    Len(prefix) <= Len(t) /\ SubSeq(t, 1, Len(prefix)) = prefix

\* ignoreError: the text, trimmed, starts with an allow-listed prefix or is
\* empty.
ignoreError(stderr) ==
    LET trimmedStdErr == TrimSpace(stderr)
    IN \/ \E i \in 1..Len(ignoreStdErrList) :
             HasPrefix(trimmedStdErr, ignoreStdErrList[i])
       \/ trimmedStdErr = <<>>

\* strings.Split(s, c) for a one-character separator c.
RECURSIVE Split(_, _)
Split(s, c) ==
    IF \E i \in 1..Len(s) : s[i] = c
    THEN LET i == CHOOSE i \in 1..Len(s) :
                     s[i] = c /\ \A j \in 1..(i - 1) : s[j] # c
         IN <<SubSeq(s, 1, i - 1)>> \o Split(SubSeq(s, i + 1, Len(s)), c)
    ELSE <<s>>

\* util.ParseValue: a boolean, a number, else the string.
ParseValue(v) ==
    IF v \in {<<"t">>, <<"f">>} THEN [type |-> "bool", text |-> v]
    ELSE IF v # <<>> /\ \A i \in 1..Len(v) : v[i] \in {"0", "1"}
    THEN [type |-> "number", text |-> v]
    ELSE [type |-> "string", text |-> v]

\* The paths the collaborators of makeTreeFromSetList reject: "w" cannot be
\* written by tpath.WriteNode, "u" is unknown to the spec's schema (the
\* unmarshalling fails), "i" holds a value the validation rejects.
UnwritableKeys == {<<"w">>}

UnknownKeys == {<<"u">>}

InvalidKeys == {<<"i">>}

\* The overrides the pipeline is run with.
Overrides == { <<"a", "=", "1">>, <<"b", "=", "t">>, <<"i", "=", "1">>,
               <<"u", "=", "1">>, <<"w", "=", "1">>, <<"a">>,
               <<"a", "=", "1", "=", "1">> }

\* The empty document "".
EmptyDoc == {}

\* tpath.WriteNode on a tree kept as a set of <<path, value>> pairs.
WriteNode(tree, k, v) == {n \in tree : n[1] # k} \cup {<<k, v>>}

\* The tree seeded with the default namespace.
SeededTree == WriteNode({}, <<"defaultNamespace">>, "istio-system")

\* The result of makeTreeFromSetList: the document, the error, and the
\* messages it handed to the logger.
TreeResult(d, e, l) == [doc |-> d, err |-> e, log |-> l]

\* A variant that only rejects an override without any "=".
BadArgumentBuggyAtLeast(kvv) == Len(kvv) < 2

\* if len(kvv) != 2: the override is not one key and one value.
BadArgument(kvv) == Len(kvv) # 2

\* The validation of the tree accumulated so far fails.
ValidationFails(tree) == \E n \in tree : n[1] \in InvalidKeys

\* The loop of makeTreeFromSetList over the overrides still to apply.
RECURSIVE treeFromSetList(_, _, _)
treeFromSetList(tree, rest, f) ==
    IF rest = <<>> THEN TreeResult(tree, "nil", {})
    ELSE LET kv == Head(rest)
             kvv == Split(kv, "=")
             k == kvv[1]
             written == WriteNode(tree, k, ParseValue(kvv[2]))
         IN IF BadArgument(kvv)
            THEN TreeResult(EmptyDoc, "badArgument", {})
            ELSE IF k \in UnwritableKeys
            THEN TreeResult(EmptyDoc, "writeErr", {})
            ELSE IF \E n \in written : n[1] \in UnknownKeys
            THEN TreeResult(EmptyDoc, "badPathValue", {})
            ELSE IF ValidationFails(written) /\ ~f
            THEN TreeResult(EmptyDoc, "validationErr", {"validationErr"})
            ELSE treeFromSetList(written, Tail(rest), f)

\* makeTreeFromSetList(setOverlay, force, l)
makeTreeFromSetList(overlay, f) ==
    IF Len(overlay) = 0 THEN TreeResult(EmptyDoc, "nil", {})
    ELSE treeFromSetList(SeededTree, overlay, f)

(***************************************************************************)
(* The apply pipeline: genApplyManifests                                   *)
(***************************************************************************)
\* The components the renderer can produce manifests for.
Components == {"Base", "Pilot"}

\* The stages of genManifests, in order, each of which can fail.
GenStages == <<"genProfile", "validate", "translator", "fetchPackage",
               "run", "render">>

\* The stages that precede manifest.ApplyAll.
PreApplyStages == {"makeTree"} \cup Range(GenStages)

\* Variant of StageNext that uses the manifests RenderManifest returned
\* along with its errors.
StageNextBuggyRender(i, o) ==
    IF o = "ok" \/ GenStages[i] = "render"
    THEN (IF i < Len(GenStages) THEN GenStages[i + 1] ELSE "applyAll")
    ELSE "returned"

\* Where genManifests goes after stage i ended with outcome o: an error is
\* returned at once, and genApplyManifests returns it in turn.
StageNext(i, o) ==
    IF o = "ok"
    THEN (IF i < Len(GenStages) THEN GenStages[i + 1] ELSE "applyAll")
    ELSE "returned"

\* What ApplyAll can report for one component.
ApplyOutcomes ==
    [Err : {"nil", "applyFailed"}, Stderr : SeqsUpTo(StderrTokens, MaxStderrLen)]

\* The error genApplyManifests returns after the report loop.
ApplyResult(g) == "nil"

\* overlayFromSet, err := makeTreeFromSetList(setOverlay, force, l)
MakeTree ==
    /\ apc = "makeTree"
    /\ LET r == makeTreeFromSetList(setOverlay, force)
       IN /\ overlayFromSet' = r.doc
          /\ treeLog' = r.log
          /\ IF r.err # "nil"
             THEN /\ apc' = "returned"
                  /\ failed' = "makeTree"
                  /\ aerr' = r.err
                  /\ UNCHANGED passed
             ELSE /\ apc' = GenStages[1]
                  /\ passed' = passed \cup {"makeTree"}
                  /\ UNCHANGED <<failed, aerr>>
    /\ UNCHANGED <<setOverlay, force, manifests, applyOut, todo, gotError,
                   applied>>
    /\ UNCHANGED <<ctlVars, diffVars>>

\* One stage of genManifests: genProfile, unmarshalAndValidateICPS,
\* translate.NewTranslator, fetchInstallPackageFromURL, cp.Run or
\* cp.RenderManifest.  The last one yields the manifest map.
GenManifestsStage ==
    /\ \E i \in 1..Len(GenStages) :
          /\ apc = GenStages[i]
          /\ \E o \in {"ok", "err"} :
                /\ apc' = StageNext(i, o)
                /\ IF o = "ok"
                   THEN /\ passed' = passed \cup {GenStages[i]}
                        /\ UNCHANGED <<failed, aerr>>
                   ELSE /\ failed' = GenStages[i]
                        /\ aerr' = IF apc' = "returned"
                                   THEN GenStages[i] \o "Err" ELSE aerr
                        /\ UNCHANGED passed
          /\ IF GenStages[i] = "render"
             THEN \E m \in (SUBSET Components) \ {{}} : manifests' = m
             ELSE UNCHANGED manifests
    /\ UNCHANGED <<setOverlay, force, overlayFromSet, applyOut, todo, gotError,
                   applied, treeLog>>
    /\ UNCHANGED <<ctlVars, diffVars>>

\* out, err := manifest.ApplyAll(manifests, ...): the cluster is changed; an
\* error of ApplyAll itself is returned.
ApplyAll ==
    /\ apc = "applyAll"
    /\ applied' = TRUE
    /\ \/ /\ apc' = "returned"
          /\ failed' = "applyAll"
          /\ aerr' = "applyAllErr"
          /\ UNCHANGED <<applyOut, todo, passed>>
       \/ /\ apc' = "report"
          /\ applyOut' \in [manifests -> ApplyOutcomes]
          /\ todo' = manifests
          /\ passed' = passed \cup {"applyAll"}
          /\ UNCHANGED <<failed, aerr>>
    /\ UNCHANGED <<setOverlay, force, overlayFromSet, manifests, gotError, treeLog>>
    /\ UNCHANGED <<ctlVars, diffVars>>

\* One iteration of the loop over the components (a map range, in any
\* order): a non-nil Err or a standard error that is not ignorable sets
\* gotError.
ReportComponent ==
    /\ apc = "report"
    /\ \E cn \in todo :
          /\ todo' = todo \ {cn}
          /\ gotError' = (gotError \/ applyOut[cn].Err # "nil"
                                   \/ ~ignoreError(applyOut[cn].Stderr))
    /\ UNCHANGED <<apc, setOverlay, force, overlayFromSet, passed, failed,
                   manifests, applyOut, applied, aerr, treeLog>>
    /\ UNCHANGED <<ctlVars, diffVars>>

\* After the loop: gotError is printed, and nil is returned.
ReturnApply ==
    /\ apc = "report"
    /\ todo = {}
    /\ apc' = "returned"
    /\ aerr' = ApplyResult(gotError)
    /\ UNCHANGED <<setOverlay, force, overlayFromSet, passed, failed,
                   manifests, applyOut, todo, gotError, applied, treeLog>>
    /\ UNCHANGED <<ctlVars, diffVars>>

\* The pipeline is not running.
AppOff ==
    /\ apc = "off"
    /\ setOverlay = <<>>
    /\ force = FALSE
    /\ overlayFromSet = EmptyDoc
    /\ passed = {}
    /\ failed = "none"
    /\ manifests = {}
    /\ applyOut = <<>>
    /\ todo = {}
    /\ gotError = FALSE
    /\ applied = FALSE
    /\ treeLog = {}
    /\ aerr = "none"

\* genApplyManifests is called with some overrides and some --force.
InitApp ==
    /\ apc = "makeTree"
    /\ setOverlay \in SeqsUpTo(Overrides, MaxOverrides)
    /\ force \in BOOLEAN
    /\ overlayFromSet = EmptyDoc
    /\ passed = {}
    /\ failed = "none"
    /\ manifests = {}
    /\ applyOut = <<>>
    /\ todo = {}
    /\ gotError = FALSE
    /\ applied = FALSE
    /\ treeLog = {}
    /\ aerr = "none"

\* The controller is not running.
CtlOff ==
    /\ impl = "sets"
    /\ srv = [exists |-> FALSE, deleted |-> FALSE, fins |-> <<>>, rv |-> 0]
    /\ cache = srv
    /\ lastWrite = "init"
    /\ writes = 0
    /\ invocations = 0
    /\ pc = "idle"
    /\ fetchOut = "none"
    /\ fetched = NoObject
    /\ obj = NoObject
    /\ branch = "none"
    /\ err = "nil"
    /\ finalizerError = "nil"
    /\ retryCount = 0
    /\ result = "none"
    /\ updateCalls = 0
    /\ refetchCalls = 0
    /\ deleteCalls = 0
    /\ reconcileCalls = 0
    /\ occurred = {}
    /\ logged = {}
    /\ lastFetched = NoObject
    /\ decodable = TRUE
    /\ calm = FALSE

(***************************************************************************)
(* The diff engine: patterns, rename, select and ignore                    *)
(***************************************************************************)
\* strings.Join(list, sep)
RECURSIVE Join(_, _)
Join(list, sep) ==
    IF list = <<>> THEN <<>>
    ELSE IF Len(list) = 1 THEN list[1]
    ELSE list[1] \o <<sep>> \o Join(Tail(list), sep)

\* Hash(kind, namespace, name): the identity key.
Hash(kind, namespace, name) == Join(<<kind, namespace, name>>, ":")

\* The regular expression ".*", kept as one element of a compiled pattern.
AnyString == ".*"

\* buildResourceRegexp: the components "" and "*" become ".*".
buildResourceRegexp(s) ==
    LET hash == Split(s, ":")
    IN Join([i \in 1..Len(hash) |->
                IF hash[i] \in {<<>>, <<"*">>} THEN <<AnyString>> ELSE hash[i]],
            ":")

\* The expression re matches a prefix of text.
RECURSIVE MatchHere(_, _)
MatchHere(re, text) ==
    IF re = <<>> THEN TRUE
    ELSE IF Head(re) = AnyString
    THEN \E k \in 0..Len(text) :
            MatchHere(Tail(re), SubSeq(text, k + 1, Len(text)))
    ELSE /\ text # <<>>
         /\ Head(text) = Head(re)
         /\ MatchHere(Tail(re), Tail(text))

\* (*regexp.Regexp).MatchString: re matches somewhere in text (the
\* expression is not anchored).
MatchString(re, text) ==
    \E k \in 0..Len(text) : MatchHere(re, SubSeq(text, k + 1, Len(text)))

\* The resource indicator pat, compiled, matches the identity key name.
PatMatch(pat, name) == MatchString(buildResourceRegexp(TrimSpace(pat)), name)

\* make(map[string]...): the map without keys.
EmptyMap == [k \in {} |-> <<>>]

\* rm[k] = v on a Go map.
MapPut(rm, k, v) ==
    [x \in (DOMAIN rm) \cup {k} |-> IF x = k THEN v ELSE rm[x]]

\* The loop of getObjPathMap over the entries still to read.
RECURSIVE objPathEntries(_, _)
objPathEntries(rm, rest) ==
    IF rest = <<>> THEN rm
    ELSE LET r == Head(rest)
             split == Split(r, ":")
         IN IF Len(split) < 4
            THEN objPathEntries(MapPut(rm, r, <<>>), Tail(rest))
            ELSE objPathEntries(
                     MapPut(rm, Hash(split[1], split[2], split[3]), split[4]),
                     Tail(rest))

\* getObjPathMap(rs): object pattern -> field path ("" for none).
getObjPathMap(rs) ==
    IF Len(rs) = 0 THEN EmptyMap ELSE objPathEntries(EmptyMap, Split(rs, ","))

\* The loop of getKeyValueMap over the entries still to read.
RECURSIVE keyValueEntries(_, _)
keyValueEntries(rm, rest) ==
    IF rest = <<>> THEN rm
    ELSE LET split == Split(Head(rest), "->")
         IN IF Len(split) # 2
            THEN keyValueEntries(rm, Tail(rest))
            ELSE keyValueEntries(MapPut(rm, split[1], split[2]), Tail(rest))

\* getKeyValueMap(rs): rename-from pattern -> rename-to pattern.
getKeyValueMap(rs) ==
    IF Len(rs) = 0 THEN EmptyMap ELSE keyValueEntries(EmptyMap, Split(rs, ","))

\* The key a matching rule writes: the components of toPat, those that are
\* "" or "*" taken from name.
NewKey(name, toPat) ==
    LET fromList == Split(name, ":")
        toList == Split(toPat, ":")
    IN Join([i \in 1..3 |-> IF toList[i] \in {<<>>, <<"*">>}
                            THEN fromList[i] ELSE toList[i]],
            ":")

\* The rules of rnm whose rename-from pattern matches name.
MatchingRules(name, rnm) == {fromPat \in DOMAIN rnm : PatMatch(fromPat, name)}

\* A matching rule makes renameResource return an error: name or the
\* rename-to string does not split into three components.
RenameFails(name, rnm) ==
    \E fromPat \in MatchingRules(name, rnm) :
        \/ Len(Split(name, ":")) # 3
        \/ Len(Split(rnm[fromPat], ":")) # 3

\* The keys under which the object of name is stored in oom: one per
\* matching rule (the loop over rnm has no break), or name when no rule
\* matches.
OutputKeys(name, rnm) ==
    IF MatchingRules(name, rnm) = {} THEN {name}
    ELSE {NewKey(name, rnm[fromPat]) : fromPat \in MatchingRules(name, rnm)}

\* The orders in which a range over a map with the keys S can visit them.
Orders(S) ==
    {o \in [1..Cardinality(S) -> S] :
        \A i, j \in 1..Cardinality(S) : i # j => o[i] # o[j]}

\* The outer loop of renameResource, visiting the names in the given order.
RECURSIVE renameLoop(_, _, _, _)
renameLoop(oom, order, iom, rnm) ==
    IF order = <<>> THEN oom
    ELSE LET name == Head(order)
             keys == OutputKeys(name, rnm)
         IN renameLoop([x \in (DOMAIN oom) \cup keys |->
                           IF x \in keys THEN iom[name] ELSE oom[x]],
                       Tail(order), iom, rnm)

\* renameResource(iom, rnm): the results it can return, one per order of
\* the range over iom.
renameResource(iom, rnm) ==
    IF \E name \in DOMAIN iom : RenameFails(name, rnm)
    THEN {[oom |-> EmptyMap, err |-> "renameErr"]}
    ELSE {[oom |-> renameLoop(EmptyMap, o, iom, rnm), err |-> "nil"] :
             o \in Orders(DOMAIN iom)}

\* filterResourceWithSelectAndIgnore: a key is added when a select pattern
\* matches it and deleted again when a key of the ignore map matches it.
filterResourceWithSelectAndIgnore(m, sm, im) ==
    LET kept == {ak \in DOMAIN m :
                    /\ \E selected \in DOMAIN sm : PatMatch(selected, ak)
                    /\ ~\E ignored \in DOMAIN im : PatMatch(ignored, ak)}
    IN [ak \in kept |-> m[ak]]

\* objectIgnorePaths: the paths of the entries with a path that match.
objectIgnorePaths(objectName, im) ==
    {im[pat] : pat \in {o \in DOMAIN im :
                           im[o] # <<>> /\ PatMatch(o, objectName)}}

\* The field paths of an object, and the objects compared.
Fields == {"r", "i"}
Objects == {[r |-> 1, i |-> 1], [r |-> 2, i |-> 1], [r |-> 2, i |-> 2]}

\* util.YAMLDiff: the fields that differ.
YAMLDiff(ay, by) == {f \in Fields : ay[f] # by[f]}

\* compare.YAMLCmpWithIgnore: the fields that differ outside ignorePaths.
YAMLCmpWithIgnore(ay, by, ignorePaths) ==
    {f \in Fields : ay[f] # by[f] /\ <<f>> \notin ignorePaths}

\* manifestDiff: the map out, identity key -> report.
manifestDiff(a, b, im, v) ==
    LET diff(ak) == IF v THEN YAMLDiff(a[ak], b[ak])
                    ELSE YAMLCmpWithIgnore(a[ak], b[ak],
                                           objectIgnorePaths(ak, im))
        reported == {ak \in DOMAIN a : ak \notin DOMAIN b \/ diff(ak) # {}}
                    \cup {bk \in DOMAIN b : bk \notin DOMAIN a}
    IN [k \in reported |->
           IF k \notin DOMAIN b THEN <<"missing in B", {}>>
           ELSE IF k \notin DOMAIN a THEN <<"missing in A", {}>>
           ELSE <<"has diffs", diff(k)>>]

\* The identity keys of the manifests compared.
InKeys == {Hash(<<"D">>, <<"n">>, <<"a">>), Hash(<<"D">>, <<"n">>, <<"b">>)}

\* The identity indexes ToMap can return.
Indexes == UNION {[S -> Objects] : S \in SUBSET InKeys}

\* The rename rules "D:*:a->*:*:b" and "*:n:a->::x", and the malformed
\* "D:n:a->b".
RuleA == <<"D", ":", "*", ":", "a", "->", "*", ":", "*", ":", "b">>
RuleB == <<"*", ":", "n", ":", "a", "->", ":", ":", "x">>
RuleBad == <<"D", ":", "n", ":", "a", "->", "b">>
RenameInputs == {<<>>, RuleA, RuleA \o <<",">> \o RuleB, RuleBad}

\* The select patterns "", "::" and "D:n:a".
SelectInputs == {<<>>, <<":", ":">>, <<"D", ":", "n", ":", "a">>}

\* The ignore patterns "", "D:n:b" and the ignore-path entry "D:*:*:r".
IgnoreInputs == {<<>>, <<"D", ":", "n", ":", "b">>,
                 <<"D", ":", "*", ":", "*", ":", "r">>}

\* ao, err := ParseK8sObjectsFromYAMLManifest(a), and the same for b: an
\* error is returned, or the indexes are built.
DiffParse ==
    /\ dpc = "parse"
    /\ \/ /\ dpc' = "done"
          /\ derr' = "parseErr"
       \/ /\ dpc' = "rename"
          /\ UNCHANGED derr
    /\ UNCHANGED <<aIn, bom, renameResources, selectResources,
                   ignoreResources, verbose, aom, aosm, bosm, diffOut>>
    /\ UNCHANGED <<ctlVars, appVars>>

\* if len(rnm) != 0 { aom, err = renameResource(aom, rnm) }
DiffRename ==
    /\ dpc = "rename"
    /\ LET rnm == getKeyValueMap(renameResources)
       IN IF DOMAIN rnm = {}
          THEN /\ dpc' = "filterA"
               /\ UNCHANGED <<aom, derr>>
          ELSE \E r \in renameResource(aom, rnm) :
                  IF r.err # "nil"
                  THEN /\ dpc' = "done"
                       /\ derr' = r.err
                       /\ UNCHANGED aom
                  ELSE /\ dpc' = "filterA"
                       /\ aom' = r.oom
                       /\ UNCHANGED derr
    /\ UNCHANGED <<aIn, bom, renameResources, selectResources,
                   ignoreResources, verbose, aosm, bosm, diffOut>>
    /\ UNCHANGED <<ctlVars, appVars>>

\* aosm, err := filterResourceWithSelectAndIgnore(aom, sm, im)
DiffFilterA ==
    /\ dpc = "filterA"
    /\ aosm' = filterResourceWithSelectAndIgnore(
                   aom, getObjPathMap(selectResources),
                   getObjPathMap(ignoreResources))
    /\ dpc' = "filterB"
    /\ UNCHANGED <<aIn, bom, renameResources, selectResources,
                   ignoreResources, verbose, aom, bosm, diffOut, derr>>
    /\ UNCHANGED <<ctlVars, appVars>>

\* bosm, err := filterResourceWithSelectAndIgnore(bom, sm, im)
DiffFilterB ==
    /\ dpc = "filterB"
    /\ bosm' = filterResourceWithSelectAndIgnore(
                   bom, getObjPathMap(selectResources),
                   getObjPathMap(ignoreResources))
    /\ dpc' = "compare"
    /\ UNCHANGED <<aIn, bom, renameResources, selectResources,
                   ignoreResources, verbose, aom, aosm, diffOut, derr>>
    /\ UNCHANGED <<ctlVars, appVars>>

\* return manifestDiff(aosm, bosm, im, verbose)
DiffCompare ==
    /\ dpc = "compare"
    /\ diffOut' = manifestDiff(aosm, bosm, getObjPathMap(ignoreResources),
                               verbose)
    /\ derr' = "nil"
    /\ dpc' = "done"
    /\ UNCHANGED <<aIn, bom, renameResources, selectResources,
                   ignoreResources, verbose, aom, aosm, bosm>>
    /\ UNCHANGED <<ctlVars, appVars>>

\* The diff engine is not running.
DiffOff ==
    /\ dpc = "off"
    /\ aIn = EmptyMap
    /\ bom = EmptyMap
    /\ renameResources = <<>>
    /\ selectResources = <<>>
    /\ ignoreResources = <<>>
    /\ verbose = FALSE
    /\ aom = EmptyMap
    /\ aosm = EmptyMap
    /\ bosm = EmptyMap
    /\ diffOut = EmptyMap
    /\ derr = "none"

\* ManifestDiffWithRenameSelectIgnore is called with two manifests, rules,
\* patterns and the verbose flag.
InitDiffEngine ==
    /\ dpc = "parse"
    /\ aIn \in Indexes
    /\ bom \in Indexes
    /\ renameResources \in RenameInputs
    /\ selectResources \in SelectInputs
    /\ ignoreResources \in IgnoreInputs
    /\ verbose \in BOOLEAN
    /\ aom = aIn
    /\ aosm = EmptyMap
    /\ bosm = EmptyMap
    /\ diffOut = EmptyMap
    /\ derr = "none"

InitDiff == CtlOff /\ AppOff /\ InitDiffEngine

NextDiff ==
    \/ DiffParse
    \/ DiffRename
    \/ DiffFilterA
    \/ DiffFilterB
    \/ DiffCompare

SpecDiff == InitDiff /\ [][NextDiff]_vars

InitApply == CtlOff /\ InitApp /\ DiffOff

NextApply ==
    \/ MakeTree
    \/ GenManifestsStage
    \/ ApplyAll
    \/ ReportComponent
    \/ ReturnApply

SpecApply == InitApply /\ [][NextApply]_vars

(***************************************************************************)
(* Properties of the apply pipeline                                        *)
(***************************************************************************)
\* C9: when building the override tree or a stage of genManifests (merge,
\* validation, translator, install package, run, render) fails, the
\* pipeline returns an error without ever calling ApplyAll; ApplyAll is
\* called only after every one of these stages has succeeded.
C9_NoApplyAfterFailure ==
    /\ applied => (PreApplyStages \subseteq passed)
    /\ failed \in PreApplyStages =>
          /\ ~applied
          /\ apc = "returned"
          /\ aerr \notin {"none", "nil"}

\* Rendering failed and the pipeline returned the error before ApplyAll.
C9_Witness ==
    /\ apc = "returned" /\ failed = "render" /\ ~applied
    /\ aerr = "renderErr" /\ manifests # {}

\* Standard error text is ignorable when it is empty after trimming or
\* starts, after trimming, with an allow-listed warning.
Ignorable(t) ==
    LET trimmed == TrimSpace(t)
    IN trimmed = <<>>
       \/ \E i \in 1..Len(ignoreStdErrList) :
             HasPrefix(trimmed, ignoreStdErrList[i])

\* Some component failed: a non-nil error or a standard error that is not
\* ignorable.
SomeComponentFailed ==
    \E cn \in manifests :
        applyOut[cn].Err # "nil" \/ ~Ignorable(applyOut[cn].Stderr)

\* C10: when genApplyManifests returns after applying all components, the
\* run is marked as having errors exactly when some component has a non-nil
\* error or a standard error that is not ignorable, and the caller gets an
\* error exactly in that case.
C10_FailureSurfaced ==
    (apc = "returned" /\ "applyAll" \in passed) =>
        /\ gotError <=> SomeComponentFailed
        /\ (aerr # "nil") <=> SomeComponentFailed

\* The override is not exactly one key and one value around one "=".
Malformed(kv) == Count(kv, "=") # 1

\* The overrides before the i-th one were all accepted.
PrefixAccepted(i) ==
    makeTreeFromSetList(SubSeq(setOverlay, 1, i - 1), force).err = "nil"

\* C11: as soon as one override does not split into exactly one key and one
\* value on "=", makeTreeFromSetList fails with an error for the whole
\* batch and returns the empty document, whatever overrides preceded it:
\* nothing is generated or applied, and when the overrides before it were
\* accepted the error is the one about the bad override.
C11_MalformedOverrideFails ==
    (apc \notin {"off", "makeTree"}) =>
        \A i \in 1..Len(setOverlay) :
            Malformed(setOverlay[i]) =>
                /\ failed = "makeTree"
                /\ aerr \notin {"nil", "none"}
                /\ overlayFromSet = EmptyDoc
                /\ passed = {}
                /\ ~applied
                /\ PrefixAccepted(i) => aerr = "badArgument"

\* A well-formed override was written to the tree, and the malformed one
\* after it failed the whole batch.
C11_Witness ==
    /\ apc = "returned"
    /\ Len(setOverlay) = 2
    /\ ~Malformed(setOverlay[1])
    /\ PrefixAccepted(2)
    /\ Malformed(setOverlay[2])
    /\ aerr = "badArgument"
    /\ overlayFromSet = EmptyDoc

\* The tree after writing all the overrides of rest, in order.
RECURSIVE WrittenTree(_, _)
WrittenTree(tree, rest) ==
    IF rest = <<>> THEN tree
    ELSE LET kvv == Split(Head(rest), "=")
         IN WrittenTree(WriteNode(tree, kvv[1], ParseValue(kvv[2])),
                        Tail(rest))

\* Every override is well formed, can be written and is known to the
\* schema: only the validation can reject the batch.
OnlyValidationAtStake ==
    \A i \in 1..Len(setOverlay) :
        /\ ~Malformed(setOverlay[i])
        /\ Split(setOverlay[i], "=")[1] \notin UnwritableKeys \cup UnknownKeys

\* The validation fails after the write of some override.
SomeValidationFailure ==
    \E i \in 1..Len(setOverlay) :
        ValidationFails(WrittenTree(SeededTree, SubSeq(setOverlay, 1, i)))

\* C12: the tree is validated after every override write; without --force
\* a validation failure aborts with an error; with --force the failure is
\* logged as a warning and the construction continues and returns the full
\* tree.
C12_ValidationPolicy ==
    (apc \notin {"off", "makeTree"} /\ OnlyValidationAtStake
                                   /\ SomeValidationFailure) =>
        IF force
        THEN /\ "makeTree" \in passed
             /\ overlayFromSet = WrittenTree(SeededTree, setOverlay)
             /\ treeLog # {}
        ELSE /\ failed = "makeTree"
             /\ aerr = "validationErr"
             /\ overlayFromSet = EmptyDoc

(***************************************************************************)
(* Properties of the diff engine                                           *)
(***************************************************************************)
\* The pattern kind:namespace:name matches the identity key component by
\* component, a component "" or "*" matching anything.
KeyMatches(pattern, key) ==
    LET pl == Split(pattern, ":")
        kl == Split(key, ":")
    IN /\ Len(pl) = 3
       /\ Len(kl) = 3
       /\ \A i \in 1..3 : pl[i] \in {<<>>, <<"*">>} \/ pl[i] = kl[i]

\* The comma-separated entries of an argument.
Entries(rs) == IF rs = <<>> THEN {} ELSE Range(Split(rs, ","))

\* An entry kind:namespace:name:path, its object pattern and its path.
HasPath(entry) == Len(Split(entry, ":")) >= 4
ObjectPart(entry) == Join(SubSeq(Split(entry, ":"), 1, 3), ":")
PathPart(entry) == Split(entry, ":")[4]

SelectPatterns == {ObjectPart(e) : e \in Entries(selectResources)}
IgnorePatterns == {e \in Entries(ignoreResources) : ~HasPath(e)}
IgnorePathEntries == {e \in Entries(ignoreResources) : HasPath(e)}

Selected(k) == \E p \in SelectPatterns : KeyMatches(p, k)
Ignored(k) == \E p \in IgnorePatterns : KeyMatches(p, k)

\* The filter step of A is over and no error was returned.
FilteredA == dpc \in {"filterB", "compare", "done"} /\ derr \in {"none", "nil"}

\* C13: a key is in the filtered set exactly when it matches no ignore
\* pattern and either there are no select patterns or it matches at least
\* one of them; with no select patterns the filtered set is the index minus
\* the ignored keys.  (Stated for arguments without ignore-path entries.)
C13_SelectThenIgnore ==
    (FilteredA /\ IgnorePathEntries = {}) =>
        DOMAIN aosm = {k \in DOMAIN aom :
                          ~Ignored(k) /\ (SelectPatterns = {} \/ Selected(k))}

\* The rename rules in the order they were given.
RuleList ==
    LET entries == IF renameResources = <<>> THEN <<>>
                   ELSE Split(renameResources, ",")
        good == {i \in 1..Len(entries) : Len(Split(entries[i], "->")) = 2}
    IN [i \in good |-> Split(entries[i], "->")]

\* The key the first matching rule, in rule order, rewrites k to; k itself
\* when no rule matches.
FirstRewrite(k) ==
    LET matching == {i \in DOMAIN RuleList : KeyMatches(RuleList[i][1], k)}
    IN IF matching = {} THEN k
       ELSE LET first == CHOOSE i \in matching : \A j \in matching : i <= j
            IN NewKey(k, RuleList[first][2])

\* The rename step is over and no error was returned.
Renamed ==
    dpc \in {"filterA", "filterB", "compare", "done"} /\ derr \in {"none", "nil"}

\* C14: the rename maps every key of A's index to exactly one output key:
\* the rewrite by the first rule, in rule order, whose from-pattern matches
\* it, or the key itself when no rule matches; no further rule adds a key.
C14_RenameFirstRule ==
    Renamed => DOMAIN aom = {FirstRewrite(k) : k \in DOMAIN aIn}

\* The paths masked for k by the ignore-path entries that match it.
MaskedPaths(k) ==
    {PathPart(e) : e \in {x \in IgnorePathEntries :
                             KeyMatches(ObjectPart(x), k)}}

\* C15: in a non-verbose diff an object matched by an ignore-path entry (and
\* selected, and not ignored as a whole) stays in the comparison with only
\* that path masked: it is reported exactly when the two sides differ in a
\* field outside the masked paths.
C15_IgnorePathMasksOnly ==
    (dpc = "done" /\ derr = "nil" /\ ~verbose) =>
        \A k \in (DOMAIN aom) \cap (DOMAIN bom) :
            (Selected(k) /\ ~Ignored(k) /\ MaskedPaths(k) # {}) =>
                (k \in DOMAIN diffOut <=>
                    \E f \in Fields : /\ aom[k][f] # bom[k][f]
                                      /\ <<f>> \notin MaskedPaths(k))

(***************************************************************************)
(* Properties of Reconcile                                                 *)
(***************************************************************************)
\* The invocation is over: Reconcile returned, or it crashed.
Terminated == pc \in {"done", "panic"}

\* The calls of this invocation that change the cluster.
NoMutation == updateCalls = 0 /\ deleteCalls = 0 /\ reconcileCalls = 0

\* C1: on the deletion path, once the delete operation (or the creation of
\* the per-resource reconciler) has run, the finalizer-removal Update is the
\* next thing Reconcile does and has been attempted by the time the
\* invocation is over, whatever the outcome of the delete operation was.
C1_UpdateAfterDelete ==
    (branch = "delete" /\ pc # "delete")
        => (pc = "update" \/ updateCalls >= 1)

\* A failed delete operation was followed by an Update that persisted the
\* removal of the token.
C1_Witness ==
    /\ pc = "done" /\ branch = "delete" /\ err = "deleteErr"
    /\ finalizerError = "nil" /\ lastWrite = "remove"
    /\ ~HasFinalizer(srv.fins)

\* The retry loop of the deletion path is entered and continued only while
\* the previous Update failed with a conflict, makes at most
\* finalizerMaxRetries retries (each a re-fetch followed by an Update), is
\* left at once on a non-conflict error, and cannot go on once the retries
\* are used up.
RetryBounded ==
    /\ retryCount <= finalizerMaxRetries
    /\ refetchCalls <= finalizerMaxRetries
    /\ updateCalls <= 1 + finalizerMaxRetries
    /\ updateCalls <= 1 + refetchCalls
    /\ pc \in {"refetch", "retryUpdate"}
          => IsConflict(finalizerError) /\ retryCount < finalizerMaxRetries
    /\ (finalizerError # "nil" /\ ~IsConflict(finalizerError)) => pc = "done"
    /\ (branch = "delete" /\ retryCount = finalizerMaxRetries) => Terminated

\* C2: on the deletion path an Update is retried only while the previous
\* Update failed with a conflict, at most finalizerMaxRetries times, never
\* after a non-conflict error, and every invocation that reaches the
\* deletion path comes to an end (checked under FairSpec, where a started
\* Reconcile keeps running).
C2_BoundedRetry == []RetryBounded /\ ((pc = "delete") ~> Terminated)

\* Every Update conflicted and the invocation returned after the last retry.
C2_Witness ==
    /\ pc = "done" /\ branch = "delete"
    /\ updateCalls = 1 + finalizerMaxRetries
    /\ refetchCalls = finalizerMaxRetries
    /\ IsConflict(finalizerError)

\* C3: when an invocation on the deletion path is over, its result is the
\* error of the last Update if that Update failed, and the error of the
\* delete operation (or success) if it succeeded.
C3_DeleteResult ==
    (Terminated /\ branch = "delete")
        => result = (IF finalizerError # "nil" THEN finalizerError ELSE err)

\* The resource the initial Get returned is deleting and has no token.
FetchedFinalized ==
    fetchOut = "ok" /\ fetched.deleted /\ ~HasFinalizer(fetched.fins)

\* The resource the initial Get returned is not deleting and has no token.
FetchedNew ==
    fetchOut = "ok" /\ ~fetched.deleted /\ ~HasFinalizer(fetched.fins)

C5_FetchFailure ==
    /\ fetchOut = "notFound" =>
          pc = "done" /\ result = "nil" /\ NoMutation /\ refetchCalls = 0
    /\ fetchOut = "getErr" =>
          pc = "done" /\ result = "getErr" /\ NoMutation /\ refetchCalls = 0

\* The resource had vanished (after a deleting resource lost its last
\* finalizer) and the next invocation found it gone.
C5_Witness ==
    /\ pc = "done" /\ fetchOut = "notFound" /\ result = "nil"
    /\ ~srv.exists

C7_ExactlyOneToken ==
    /\ Count(srv.fins, finalizer) <= 1
    /\ lastWrite = "add" => Count(srv.fins, finalizer) = 1
    /\ (pc = "done" /\ branch = "add" /\ result = "nil" /\ lastWrite # "other")
          => Count(srv.fins, finalizer) = 1

\* Reconcile added the token and a second Reconcile on the result went
\* straight to the update operation.
C7_Witness ==
    /\ invocations = 2 /\ pc = "done" /\ result = "nil"
    /\ branch = "update" /\ lastWrite = "add"
    /\ Count(srv.fins, finalizer) = 1

\* The errors that stop the invocation or one of its steps from doing its
\* work (the others are followed by a further attempt in the same
\* invocation).
Undone == occurred \ {"getTyped", "refetch"}

\* C8: when Reconcile returns, every error a cluster call or the
\* per-resource reconciler returned to it has been logged, and the result is
\* an error when one of them left work undone.
C8_NoSwallowedError ==
    pc = "done" =>
        /\ occurred \subseteq logged
        /\ (Undone \ {"update"}) # {} => result # "nil"

\* A retry of the loop has just persisted the removal.
RetryPersisted ==
    /\ pc = "retryUpdate"
    /\ updateCalls' = updateCalls + 1
    /\ finalizerError' = "nil"

\* C16: when an Update of the retry loop succeeds, the finalizers it
\* persists have the membership of the latest fetched list minus this
\* controller's token, which is also the membership of the stored list
\* just before the write minus the token: tokens that other writers added
\* or removed are neither lost nor brought back.
C16_RetryFromLatest ==
    [][RetryPersisted =>
          /\ Range(srv'.fins) = Range(lastFetched.fins) \ {finalizer}
          /\ Range(srv'.fins) = Range(srv.fins) \ {finalizer}]_vars

\* A retry succeeded and kept a token another writer added after the
\* initial fetch.
C16_Witness ==
    /\ pc = "done"
    /\ branch = "delete"
    /\ retryCount >= 1
    /\ finalizerError = "nil"
    /\ lastWrite = "remove"
    /\ otherFinalizer \notin Range(fetched.fins)
    /\ otherFinalizer \in Range(srv.fins)

\* C18: the conflict-retry loop never fails with an out-of-range index:
\* whatever the re-fetch returned, Reconcile returns a result.
C18_NoPanic == pc # "panic" /\ result # "panic"

\* C19: in one invocation the delete operation is invoked only when the
\* fetched resource has the deletion marker and the token, the update
\* operation only when it has no deletion marker, never both, and each at
\* most once (the retry loop does not repeat the delete operation).
C19_ExclusiveOperations ==
    /\ deleteCalls <= 1
    /\ reconcileCalls <= 1
    /\ ~(deleteCalls >= 1 /\ reconcileCalls >= 1)
    /\ deleteCalls >= 1 => fetched.deleted /\ HasFinalizer(fetched.fins)
    /\ reconcileCalls >= 1 => ~fetched.deleted

\* The retry loop ran to its bound after one delete operation.
C19_Witness ==
    /\ pc = "done"
    /\ deleteCalls = 1
    /\ retryCount = finalizerMaxRetries
    /\ updateCalls = finalizerMaxRetries + 1

Init == InitCtl /\ AppOff /\ DiffOff

Next ==
    \/ Dispatch
    \/ Get
    \/ GetTyped
    \/ DeleteOp
    \/ UpdateRemove
    \/ Refetch
    \/ RetryUpdate
    \/ AddUpdate
    \/ ReconcileOp
    \/ OtherWriter
    \/ UserDelete
    \/ CacheSync

Spec == Init /\ [][Next]_vars

\* The steps of a running Reconcile invocation.
ReconcileStep ==
    \/ Get
    \/ GetTyped
    \/ DeleteOp
    \/ UpdateRemove
    \/ Refetch
    \/ RetryUpdate
    \/ AddUpdate
    \/ ReconcileOp

\* Reconcile is synchronous code whose cluster calls block and return: an
\* invocation that has started keeps taking its steps.
FairSpec == Spec /\ WF_vars(ReconcileStep)

\* A change of the cached resource that the last invocation has not seen:
\* its event is still to be handled.
EventPending == fetchOut = "ok" /\ fetched.rv # cache.rv

\* The dispatcher owes an invocation: the first event, a requeue after an
\* error, the restart after a crash, or an event not handled yet.
Requeue == Dispatch /\ (pc = "idle" \/ result # "nil" \/ EventPending)

NextLive ==
    \/ Next
    \/ Settle

\* Requeue-on-error with weak fairness: a started invocation keeps taking
\* its steps, an owed invocation is eventually started, and the cache
\* eventually catches up with the server.
LiveSpec ==
    /\ Init
    /\ [][NextLive]_vars
    /\ WF_vars(ReconcileStep)
    /\ WF_vars(Requeue)
    /\ WF_vars(CacheSync)

\* The resource is deleting and carries this controller's token.
Deleting == srv.exists /\ srv.deleted /\ HasFinalizer(srv.fins)

\* The token is removed and the removal persisted.
Finalized == ~srv.exists \/ ~HasFinalizer(srv.fins)

\* C17: once conflicts with other writers and transient errors have
\* stopped, a resource that is deleting and carries the token eventually
\* has the token removed and the removal persisted, even if the delete
\* operation fails in every invocation.
C17_EventuallyFinalized == (calm /\ Deleting) ~> Finalized

TypeOK ==
    /\ pc \in {"idle", "get", "getTyped", "delete", "update", "refetch",
               "retryUpdate", "addUpdate", "reconcile", "done", "panic"}
    /\ result \in Errors \cup {"none", "nil", "panic"}
    /\ retryCount \in 0..finalizerMaxRetries

====
